---- MODULE Spec2Model ----
(***************************************************************************)
(* DiskStorageDriver (src/bp/core/services/ghost/disk-driver.ts): the      *)
(* filesystem-backed storage driver of the Ghost store; and, further down, *)
(* the entity-delete handler of NLURouter                                  *)
(* (src/bp/nlu/application/api/router.ts).                                 *)
(*                                                                         *)
(* A path is a sequence of segments.  Physical paths are absolute and      *)
(* start at the filesystem root <<>>.  A logical path is what a caller     *)
(* hands to the driver: relative segments, possibly "." and "..", or an    *)
(* absolute path written with the first segment "/".                       *)
(* The filesystem is a partial function from the physical paths that exist *)
(* to Dir or to the content of a regular file.  A content stands for the   *)
(* bytes written: a Buffer, or the UTF-8 bytes of a string.  The result of *)
(* a listing is the set of the paths found; their order is not modelled.   *)
(***************************************************************************)
EXTENDS Integers, Sequences, FiniteSets, TLC

VARIABLES
    fs,         \* the filesystem: existing physical path -> Dir or file content
    cwd,        \* the working directory of the process
    ret,        \* the last driver call: its arguments and how it settled
    lastWrite,  \* history: physical path -> content of the upsertFile that was
                \* the most recent mutation of that path
    archive,    \* what the archive file written by the last createArchive
                \* holds; it lies outside the paths of fs
    calls,      \* the upsertFile calls in progress, by caller
    extraction, \* the extractArchive call in progress, suspended at its awaits
    nlu         \* the NLU router: the entity and intent repositories and the
                \* entity-delete request in progress

vars == <<fs, cwd, ret, lastWrite, archive, calls, extraction, nlu>>

\* What the file operations of one caller leave alone
outside == <<archive, calls, extraction, nlu>>

-----------------------------------------------------------------------------
(* Bounds and input sets *)

NumContents == 2

PlainContents == <<"c1", "c2", "c3", "c4">>

\* The text of a ledger with one entry; JSON.parse rejects the plain contents.
JSONContents == {"[r1]"}

Contents == {PlainContents[i] : i \in 1..NumContents} \cup JSONContents

Dir == "<dir>"

\* An archive file that is missing or was left incomplete
NoArchive == [complete |-> FALSE, entries |-> <<>>]

\* process.PROJECT_LOCATION
PROJECT_LOCATION == <<"proj">>

-----------------------------------------------------------------------------
(* Paths: the functions of node's path module the driver uses *)

Prefix(p, k) == SubSeq(p, 1, k)

\* path.dirname of an absolute, normalized path
Dirname(p) == IF p = <<>> THEN <<>> ELSE SubSeq(p, 1, Len(p) - 1)

\* path.basename
Basename(p) == p[Len(p)]

\* q is p or lies beneath p
IsUnder(q, p) == Len(q) >= Len(p) /\ SubSeq(q, 1, Len(p)) = p

IsAbsolute(p) == p # <<>> /\ p[1] = "/"

\* A logical path with a ".." segment
HasTraversal(p) == \E i \in 1..Len(p) : p[i] = ".."

\* normalization of an absolute path: "." is dropped, ".." removes the segment
\* before it and is dropped at the root
RECURSIVE NormalizeFrom(_, _)
NormalizeFrom(acc, rest) ==
    IF rest = <<>> THEN acc
    ELSE LET s == Head(rest) IN
         IF s = "." THEN NormalizeFrom(acc, Tail(rest))
         ELSE IF s = ".." THEN NormalizeFrom(Dirname(acc), Tail(rest))
         ELSE NormalizeFrom(Append(acc, s), Tail(rest))

\* path.resolve(from, p): an absolute p replaces from
PathResolve(from, p) ==
    IF IsAbsolute(p) THEN NormalizeFrom(<<>>, Tail(p))
    ELSE NormalizeFrom(from, p)

\* path.join(p, q), left unnormalized: every use resolves the result
PathJoin(p, q) == p \o q

resolvePath(p) == PathResolve(PROJECT_LOCATION, p)

-----------------------------------------------------------------------------
(* The filesystem calls the driver makes (fs, fs-extra) *)

Exists(f, p) == p \in DOMAIN f
IsDirAt(f, p) == p \in DOMAIN f /\ f[p] = Dir
IsFileAt(f, p) == p \in DOMAIN f /\ f[p] # Dir

FsPut(f, p, v) == [q \in DOMAIN f \cup {p} |-> IF q = p THEN v ELSE f[q]]

\* a removal that takes the path alone and leaves what lies beneath it
FsRemoveShallow(f, p) == [q \in DOMAIN f \ {p} |-> f[q]]

\* the path and everything beneath it are removed
FsRemoveTree(f, p) == [q \in {x \in DOMAIN f : ~IsUnder(x, p)} |-> f[q]]

\* The error of walking to p's parent directory: a missing component is
\* ENOENT, a component that is a regular file is ENOTDIR.
WalkErr(f, p) ==
    IF \A k \in 0..(Len(p) - 1) : IsDirAt(f, Prefix(p, k)) THEN "OK"
    ELSE LET k == CHOOSE i \in 0..(Len(p) - 1) :
                     /\ ~IsDirAt(f, Prefix(p, i))
                     /\ \A j \in 0..(i - 1) : IsDirAt(f, Prefix(p, j))
         IN IF Exists(f, Prefix(p, k)) THEN "ENOTDIR" ELSE "ENOENT"

SysResult(err, f, data) == [err |-> err, fs |-> f, data |-> data]

\* fs.mkdir
SysMkdir(f, p) ==
    IF WalkErr(f, p) # "OK" THEN SysResult(WalkErr(f, p), f, "")
    ELSE IF Exists(f, p) THEN SysResult("EEXIST", f, "")
    ELSE SysResult("OK", FsPut(f, p, Dir), "")

\* mkdirs that takes every error of mkdir as a failure
MkdirsAfterErrorFatal(f, p, err) == err

\* fs-extra mkdirs after mkdir(p) failed with an error other than ENOENT:
\* fs.stat(p), and the error stands unless p is a directory
MkdirsAfterError(f, p, err) == IF IsDirAt(f, p) THEN "OK" ELSE err

\* fs-extra mkdirs, run to completion: mkdir(p); on ENOENT make the parent and
\* try again; on any other error succeed iff p is a directory.
RECURSIVE FseMkdirp(_, _)
FseMkdirp(f, p) ==
    LET r == SysMkdir(f, p) IN
    IF r.err = "OK" THEN r
    ELSE IF r.err = "ENOENT" THEN
        LET up == FseMkdirp(f, Dirname(p)) IN
        IF up.err # "OK" THEN up ELSE FseMkdirp(up.fs, p)
    ELSE SysResult(MkdirsAfterError(f, p, r.err), f, "")

\* fs.writeFile: open(O_WRONLY | O_CREAT | O_TRUNC) and write
SysWriteFile(f, p, content) ==
    IF WalkErr(f, p) # "OK" THEN SysResult(WalkErr(f, p), f, "")
    ELSE IF IsDirAt(f, p) THEN SysResult("EISDIR", f, "")
    ELSE SysResult("OK", FsPut(f, p, content), "")

\* fs.readFile
SysReadFile(f, p) ==
    IF WalkErr(f, p) # "OK" THEN SysResult(WalkErr(f, p), f, "")
    ELSE IF ~Exists(f, p) THEN SysResult("ENOENT", f, "")
    ELSE IF IsDirAt(f, p) THEN SysResult("EISDIR", f, "")
    ELSE SysResult("OK", f, f[p])

\* fs.unlink
SysUnlink(f, p) ==
    IF WalkErr(f, p) # "OK" THEN SysResult(WalkErr(f, p), f, "")
    ELSE IF ~Exists(f, p) THEN SysResult("ENOENT", f, "")
    ELSE IF IsDirAt(f, p) THEN SysResult("EISDIR", f, "")
    ELSE SysResult("OK", FsRemoveTree(f, p), "")

\* fs.access(p, R_OK)
SysAccess(f, p) ==
    IF WalkErr(f, p) # "OK" THEN SysResult(WalkErr(f, p), f, "")
    ELSE IF ~Exists(f, p) THEN SysResult("ENOENT", f, "")
    ELSE SysResult("OK", f, "")

\* a removal that takes the whole folder the path lies in
FseRemoveSyncParent(f, p) ==
    IF WalkErr(f, p) = "ENOTDIR" THEN SysResult("ENOTDIR", f, "")
    ELSE SysResult("OK", FsRemoveTree(f, Dirname(p)), "")

\* fs-extra removeSync (rimraf): a missing path is no error, a file or a whole
\* subtree is removed; a path below a regular file fails with ENOTDIR.
FseRemoveSync(f, p) ==
    IF WalkErr(f, p) = "ENOTDIR" THEN SysResult("ENOTDIR", f, "")
    ELSE SysResult("OK", FsRemoveTree(f, p), "")

-----------------------------------------------------------------------------
(* How a driver call settles.  kind is "ok", or the kind of the error the    *)
(* caller receives: "Error" is a plain Error object: that of the underlying  *)
(* I/O call, unwrapped, with its code, or one the driver throws, with no     *)
(* code and its message as the value; "NotFound" and "VError" are made by    *)
(* the driver, a VError carrying the code of the cause it wraps.             *)

Settled(kind, code, value, f) ==
    [kind |-> kind, code |-> code, value |-> value, fs |-> f]

Ok(value, f) == Settled("ok", "", value, f)

\* JSON.parse of a ledger file's text
JSONParses(c) == c \in JSONContents
JSONParse(c) == IF c = "[r1]" THEN <<"r1">> ELSE <<>>

-----------------------------------------------------------------------------
(* File names and glob patterns.  A name is split into its "." characters  *)
(* and the runs of other characters between them; a name with no "." and   *)
(* no upper-case letter is one run.                                        *)

NameParts(n) ==
    CASE n = "x.txt"          -> <<"x", ".", "txt">>
      [] n = "out.txt"        -> <<"out", ".", "txt">>
      [] n = "revisions.json" -> <<"revisions", ".", "json">>
      [] n = "v1.2"           -> <<"v1", ".", "2">>
      [] n = ".noghost"       -> <<".", "noghost">>
      [] n = ".NoGhost"       -> <<".", "NoGhost">>
      [] n = ".git"           -> <<".", "git">>
      [] OTHER                -> <<n>>

\* String.prototype.toLowerCase, on a name
ToLowerCase(n) ==
    IF n = ".NoGhost" THEN ".noghost" ELSE IF n = "City" THEN "city" ELSE n

StartsWithDot(n) == Head(NameParts(n)) = "."

\* A pattern is a sequence of segments; a segment is GLOBSTAR or a sequence
\* of parts in which "*" stands for any run of characters.
GLOBSTAR == <<"**">>

\* '**/*.*', the pattern of every listing
ListingPattern == <<GLOBSTAR, <<"*", ".", "*">>>>

RECURSIVE WildMatch(_, _)
WildMatch(pat, s) ==
    IF pat = <<>> THEN s = <<>>
    ELSE IF Head(pat) = "*"
         THEN WildMatch(Tail(pat), s) \/ (s # <<>> /\ WildMatch(pat, Tail(s)))
         ELSE s # <<>> /\ Head(s) = Head(pat) /\ WildMatch(Tail(pat), Tail(s))

\* minimatch, one path segment: a name that starts with "." matches only in
\* dot mode or a pattern segment that starts with "." itself
SegMatch(pat, n, dot) ==
    /\ WildMatch(pat, NameParts(n))
    /\ (dot \/ ~StartsWithDot(n) \/ Head(pat) = ".")

\* minimatch matchOne: a whole relative path against a whole pattern
RECURSIVE MatchOne(_, _, _)
MatchOne(file, pattern, dot) ==
    IF file = <<>> \/ pattern = <<>> THEN file = <<>> /\ pattern = <<>>
    ELSE IF Head(pattern) = GLOBSTAR THEN
        IF Len(pattern) = 1
        THEN \A i \in 1..Len(file) : dot \/ ~StartsWithDot(file[i])
        ELSE \E k \in 0..(Len(file) - 1) :
                /\ \A j \in 1..k : dot \/ ~StartsWithDot(file[j])
                /\ MatchOne(SubSeq(file, k + 1, Len(file)), Tail(pattern), dot)
    ELSE /\ SegMatch(Head(pattern), Head(file), dot)
         /\ MatchOne(Tail(file), Tail(pattern), dot)

\* glob's ignore option: ignore patterns match in dot mode, and a pattern
\* that ends in /** also matches the directory it names (gmatcher)
EndsInGlobstar(pattern) == Len(pattern) > 1 /\ pattern[Len(pattern)] = GLOBSTAR
GPattern(pattern) == SubSeq(pattern, 1, Len(pattern) - 1)

ChildrenIgnored(rel, ignore) ==
    \E pattern \in ignore :
        EndsInGlobstar(pattern) /\ MatchOne(rel, GPattern(pattern), TRUE)

IsIgnored(rel, ignore) ==
    \E pattern \in ignore :
        \/ MatchOne(rel, pattern, TRUE)
        \/ EndsInGlobstar(pattern) /\ MatchOne(rel, GPattern(pattern), TRUE)

\* The entries of directory d (fs.readdir)
Readdir(f, d) == {p[Len(p)] : p \in {q \in DOMAIN f : Len(q) = Len(d) + 1 /\ IsUnder(q, d)}}

\* glob('**/*.*', {cwd, dot, ignore}) below rel: the entries of the directory
\* that match *.* (files and directories alike) and are not ignored, and the
\* same for every entry the globstar descends into.  A path that is no
\* directory has no entries; an ignored directory is not read.
\* glob whose ignore option only keeps it from reading the ignored directories
RECURSIVE GlobWalkPruneOnly(_, _, _, _, _)
GlobWalkPruneOnly(f, base, rel, dot, ignore) ==
    IF rel # <<>> /\ ChildrenIgnored(rel, ignore) THEN {}
    ELSE IF ~IsDirAt(f, base \o rel) THEN {}
    ELSE LET entries == Readdir(f, base \o rel) IN
         {Append(rel, e) : e \in {x \in entries : SegMatch(ListingPattern[2], x, dot)}}
         \cup UNION {GlobWalkPruneOnly(f, base, Append(rel, e), dot, ignore) :
                        e \in {x \in entries : dot \/ ~StartsWithDot(x)}}

RECURSIVE GlobWalk(_, _, _, _, _)
GlobWalk(f, base, rel, dot, ignore) ==
    IF rel # <<>> /\ ChildrenIgnored(rel, ignore) THEN {}
    ELSE IF ~IsDirAt(f, base \o rel) THEN {}
    ELSE LET entries == Readdir(f, base \o rel) IN
         {Append(rel, e) : e \in {x \in entries :
              /\ SegMatch(ListingPattern[2], x, dot)
              /\ ~IsIgnored(Append(rel, x), ignore)}}
         \cup UNION {GlobWalk(f, base, Append(rel, e), dot, ignore) :
                        e \in {x \in entries : dot \/ ~StartsWithDot(x)}}

Glob(f, base, dot, ignore) == GlobWalk(f, base, <<>>, dot, ignore)

-----------------------------------------------------------------------------
(* DiskStorageDriver *)

\* upsertFile that leaves an existing file as it is (create, not upsert)
upsertFileCreateOnly(f, filePath, content, recordRevision) ==
    LET folder == Dirname(resolvePath(filePath))
        made == FseMkdirp(f, folder)
    IN IF made.err # "OK" THEN Settled("VError", made.err, "", made.fs)
       ELSE IF IsFileAt(made.fs, resolvePath(filePath)) THEN Ok("", made.fs)
       ELSE LET w == SysWriteFile(made.fs, resolvePath(filePath), content) IN
            IF w.err # "OK" THEN Settled("VError", w.err, "", w.fs)
            ELSE Ok("", w.fs)

upsertFile(f, filePath, content, recordRevision) ==
    LET folder == Dirname(resolvePath(filePath))
        made == FseMkdirp(f, folder)
    IN IF made.err # "OK" THEN Settled("VError", made.err, "", made.fs)
       ELSE LET w == SysWriteFile(made.fs, resolvePath(filePath), content) IN
            IF w.err # "OK" THEN Settled("VError", w.err, "", w.fs)
            ELSE Ok("", w.fs)

\* fse.ensureDir(dirname): the name is not resolved against the project
\* location, and the promise of fs-extra is returned as it is
createDir(f, dirname, workdir) ==
    LET made == FseMkdirp(f, PathResolve(workdir, dirname)) IN
    IF made.err # "OK" THEN Settled("Error", made.err, "", made.fs)
    ELSE Ok("", made.fs)

\* The promise of fse.readFile is returned, not awaited: its rejection
\* settles the call and never enters the catch block.
readFile(f, filePath) ==
    LET r == SysReadFile(f, resolvePath(filePath)) IN
    IF r.err # "OK" THEN Settled("Error", r.err, "", f)
    ELSE Ok(r.data, f)

\* As readFile: the promise of fse.unlink is returned, not awaited.
deleteFile(f, filePath) ==
    LET r == SysUnlink(f, resolvePath(filePath)) IN
    IF r.err # "OK" THEN Settled("Error", r.err, "", f)
    ELSE Ok("", r.fs)

\* removeSync throws inside the try block
deleteDir(f, dirPath) ==
    LET r == FseRemoveSync(f, resolvePath(dirPath)) IN
    IF r.err # "OK" THEN Settled("VError", r.err, "", f)
    ELSE Ok("", r.fs)

\* exclude is the set of ignore patterns; none is the empty set.  The value
\* is the set of the paths found, relative to folder.
directoryListing(f, folder, exclude, includeDotFiles) ==
    LET a == SysAccess(f, resolvePath(folder)) IN
    IF a.err = "ENOENT" THEN Ok({}, f)
    ELSE IF a.err # "OK" THEN Settled("VError", a.err, {}, f)
    ELSE Ok(Glob(f, resolvePath(folder), includeDotFiles, exclude), f)

\* deleteRevision that does nothing and reports success
deleteRevisionNoOp(f, filePath, revision) == Ok("", f)

\* throw new Error('Method not implemented.'): the call rejects with an Error
\* that has no code and wraps no cause
deleteRevision(f, filePath, revision) ==
    Settled("Error", "", "Method not implemented.", f)

\* listRevisions without its catch block
listRevisionsUncaught(f, pathPrefix) ==
    LET r == readFile(f, PathJoin(pathPrefix, <<"revisions.json">>)) IN
    IF r.kind # "ok" THEN r
    ELSE IF ~JSONParses(r.value) THEN Settled("Error", "SyntaxError", <<>>, f)
    ELSE Ok(JSONParse(r.value), f)

\* the read is awaited inside the try block: its rejection and the exception
\* of JSON.parse are both caught

listRevisions(f, pathPrefix) ==
    LET r == readFile(f, PathJoin(pathPrefix, <<"revisions.json">>)) IN
    IF r.kind # "ok" THEN Ok(<<>>, f)
    ELSE IF ~JSONParses(r.value) THEN Ok(<<>>, f)
    ELSE Ok(JSONParse(r.value), f)

\* path.relative(from, to) of two absolute paths
RECURSIVE CommonLen(_, _)
CommonLen(p, q) ==
    IF p = <<>> \/ q = <<>> \/ Head(p) # Head(q) THEN 0
    ELSE 1 + CommonLen(Tail(p), Tail(q))

PathRelative(from, to) ==
    LET k == CommonLen(from, to) IN
    [i \in 1..(Len(from) - k) |-> ".."] \o SubSeq(to, k + 1, Len(to))

\* path.dirname of a relative path: "." when there is no directory part
DirnameRel(p) == IF Len(p) <= 1 THEN <<".">> ELSE SubSeq(p, 1, Len(p) - 1)

\* files are relative paths, which path.relative resolves against the working
\* directory of the process
getBaseDirectories(files, workdir) ==
    {DirnameRel(PathRelative(PROJECT_LOCATION, PathResolve(workdir, x)))[1] : x \in files}

discoverTrackableFolders(f, baseDir, workdir) ==
    LET listed == directoryListing(f, baseDir, {}, TRUE) IN
    IF listed.kind # "ok" THEN Ok({}, f)
    ELSE LET allFiles == listed.value
             allDirectories == getBaseDirectories(allFiles, workdir)
             noghostFiles == {x \in allFiles : ToLowerCase(Basename(x)) = ".noghost"}
             noghostDirectories == getBaseDirectories(noghostFiles, workdir)
         IN Ok(allDirectories \ noghostDirectories, f)
\* tar.create({cwd: folder, file: fileName, portable, gzip}, files): one entry
\* per named file, in order, holding its path relative to folder and its
\* content, under a well-formed header.  files names regular files.
TarCreate(f, base, files) ==
    [i \in 1..Len(files) |->
        [header |-> "ok", path |-> files[i], data |-> f[base \o files[i]]]]

\* An entry tar's strict mode takes as an error: a header that does not
\* parse, a path with "..", an absolute path
BadEntry(e) == e.header # "ok" \/ HasTraversal(e.path) \/ IsAbsolute(e.path)

\* folder is not resolved against the project location.  value.file is the
\* file name returned; value.written is what the archive file holds: after a
\* failure it is left incomplete.
createArchive(f, fileName, folder, files, workdir) ==
    LET base == PathResolve(workdir, folder) IN
    IF \E i \in 1..Len(files) : ~IsFileAt(f, base \o files[i])
    THEN Settled("VError", "ENOENT", [file |-> fileName, written |-> NoArchive], f)
    ELSE Ok([file |-> fileName,
             written |-> [complete |-> TRUE, entries |-> TarCreate(f, base, files)]], f)

\* tar.x({sync: true, strict: true, cwd}): the entries are unpacked in order,
\* each below cwd, its parent directories made; in strict mode a malformed
\* entry and an entry whose path has ".." or is absolute end the unpacking
\* with an error, the entries before it staying unpacked.
RECURSIVE TarExtract(_, _, _)
TarExtract(f, dest, entries) ==
    IF entries = <<>> THEN SysResult("OK", f, "")
    ELSE LET e == Head(entries) IN
         IF BadEntry(e)
         THEN SysResult("TAR_ENTRY_ERROR", f, "")
         ELSE LET made == FseMkdirp(f, Dirname(dest \o e.path)) IN
              IF made.err # "OK" THEN made
              ELSE LET w == SysWriteFile(made.fs, dest \o e.path, e.data) IN
                   IF w.err # "OK" THEN w
                   ELSE TarExtract(w.fs, dest, Tail(entries))

\* destination is not resolved against the project location; nothing is
\* caught: every failure is the underlying error.  The listing is awaited
\* after the unpack stream has ended.
extractArchive(f, arch, destination, workdir) ==
    LET dest == PathResolve(workdir, destination)
        made == IF Exists(f, dest) THEN SysResult("OK", f, "") ELSE SysMkdir(f, dest)
    IN IF made.err # "OK" THEN Settled("Error", made.err, {}, made.fs)
       ELSE IF ~IsDirAt(made.fs, dest) THEN Settled("Error", "ENOTDIR", {}, made.fs)
       ELSE LET x == TarExtract(made.fs, dest, arch.entries) IN
            IF x.err # "OK" THEN Settled("Error", x.err, {}, x.fs)
            ELSE Ok(Glob(x.fs, dest, FALSE, {}), x.fs)

-----------------------------------------------------------------------------
(* The driver's operations as steps.  Each step is one call run to its      *)
(* settlement; ret records the call.                                        *)

Call(op, path, args, r) ==
    [op |-> op, path |-> path, args |-> args,
     kind |-> r.kind, code |-> r.code, value |-> r.value]

NoCall == [op |-> "none", path |-> <<>>, args |-> <<>>,
           kind |-> "ok", code |-> "", value |-> ""]

\* The regular files at any depth below the directory at, relative to it
FilesBelow(f, at) ==
    {SubSeq(q, Len(at) + 1, Len(q)) :
        q \in {x \in DOMAIN f : IsUnder(x, at) /\ x # at /\ IsFileAt(f, x)}}

Forget(w, at) == [q \in {x \in DOMAIN w : ~IsUnder(x, at)} |-> w[q]]

UpsertFile(filePath, content, recordRevision) ==
    LET r == upsertFile(fs, filePath, content, recordRevision)
        at == resolvePath(filePath)
    IN /\ fs' = r.fs
       /\ ret' = Call("upsertFile", filePath,
                      [content |-> content, recordRevision |-> recordRevision,
                       folderMissing |-> ~Exists(fs, Dirname(at))], r)
       /\ lastWrite' = IF r.kind = "ok" THEN FsPut(lastWrite, at, content)
                       ELSE lastWrite
       /\ UNCHANGED <<cwd, outside>>

CreateDir(dirname) ==
    LET r == createDir(fs, dirname, cwd) IN
    /\ fs' = r.fs
    /\ ret' = Call("createDir", dirname, <<>>, r)
    /\ UNCHANGED <<cwd, lastWrite, outside>>

ReadFile(filePath) ==
    LET r == readFile(fs, filePath) IN
    /\ ret' = Call("readFile", filePath, <<>>, r)
    /\ UNCHANGED <<fs, cwd, lastWrite, outside>>

DeleteFile(filePath) ==
    LET r == deleteFile(fs, filePath)
        at == resolvePath(filePath)
    IN /\ fs' = r.fs
       /\ ret' = Call("deleteFile", filePath, <<>>, r)
       /\ lastWrite' = IF r.kind = "ok"
                       THEN Forget(lastWrite, at)
                       ELSE lastWrite
       /\ UNCHANGED <<cwd, outside>>

DeleteDir(dirPath) ==
    LET r == deleteDir(fs, dirPath)
        at == resolvePath(dirPath)
    IN /\ fs' = r.fs
       /\ ret' = Call("deleteDir", dirPath, [held |-> FilesBelow(fs, at)], r)
       /\ lastWrite' = IF r.kind = "ok"
                       THEN Forget(lastWrite, at)
                       ELSE lastWrite
       /\ UNCHANGED <<cwd, outside>>

DirectoryListing(folder, exclude, includeDotFiles) ==
    LET r == directoryListing(fs, folder, exclude, includeDotFiles) IN
    /\ fs' = r.fs
    /\ ret' = Call("directoryListing", folder,
                   [exclude |-> exclude, includeDotFiles |-> includeDotFiles], r)
    /\ UNCHANGED <<cwd, lastWrite, outside>>

DeleteRevision(filePath, revision) ==
    LET r == deleteRevision(fs, filePath, revision) IN
    /\ fs' = r.fs
    /\ ret' = Call("deleteRevision", filePath, [revision |-> revision], r)
    /\ UNCHANGED <<cwd, lastWrite, outside>>

ListRevisions(pathPrefix) ==
    LET r == listRevisions(fs, pathPrefix) IN
    /\ fs' = r.fs
    /\ ret' = Call("listRevisions", pathPrefix, <<>>, r)
    /\ UNCHANGED <<cwd, lastWrite, outside>>

DiscoverTrackableFolders(baseDir) ==
    LET r == discoverTrackableFolders(fs, baseDir, cwd) IN
    /\ fs' = r.fs
    /\ ret' = Call("discoverTrackableFolders", baseDir, <<>>, r)
    /\ UNCHANGED <<cwd, lastWrite, outside>>

CreateArchive(fileName, folder, files) ==
    LET r == createArchive(fs, fileName, folder, files, cwd) IN
    /\ fs' = r.fs
    /\ archive' = r.value.written
    /\ ret' = Call("createArchive", folder, [files |-> files], r)
    /\ UNCHANGED <<cwd, lastWrite, calls, extraction, nlu>>

\* The caller hands over the bytes of an archive that was written completely.
ExtractArchive(destination) ==
    /\ archive.complete
    /\ LET r == extractArchive(fs, archive, destination, cwd)
           dest == PathResolve(cwd, destination)
       IN /\ fs' = r.fs
          /\ ret' = Call("extractArchive", destination,
                         [intoEmpty |-> ~Exists(fs, dest)
                                        \/ (IsDirAt(fs, dest) /\ Readdir(fs, dest) = {})], r)
          /\ lastWrite' = Forget(lastWrite, dest)
    /\ UNCHANGED <<cwd, archive, calls, extraction, nlu>>

-----------------------------------------------------------------------------
(* upsertFile calls of several callers in progress at once.  A call         *)
(* suspends at every filesystem call: each mkdir and each stat of mkdirp,   *)
(* and the write.  at is the directory mkdirp is making; the directories    *)
(* between it and the file's folder are the pending frames of mkdirs.       *)

NewCall(f, filePath, content) ==
    [path |-> filePath, content |-> content, pc |-> "mkdir",
     at |-> Dirname(resolvePath(filePath)), code |-> "",
     alone |-> upsertFile(f, filePath, content, FALSE).kind = "ok"]

StartUpserts(p1, c1, p2, c2) ==
    /\ calls = <<>>
    /\ calls' = <<NewCall(fs, p1, c1), NewCall(fs, p2, c2)>>
    /\ UNCHANGED <<fs, cwd, ret, lastWrite, archive, extraction, nlu>>

\* mkdirs(at) succeeded: the frame above it tries its own directory again,
\* or, at the file's folder, the write follows
MkdirsDone(call) ==
    LET folder == Dirname(resolvePath(call.path)) IN
    IF call.at = folder THEN [call EXCEPT !.pc = "write"]
    ELSE [call EXCEPT !.pc = "mkdir", !.at = Prefix(folder, Len(call.at) + 1)]

MkdirStep(i) ==
    /\ i \in DOMAIN calls
    /\ calls[i].pc = "mkdir"
    /\ LET call == calls[i]
           r == SysMkdir(fs, call.at)
       IN /\ fs' = r.fs
          /\ calls' = [calls EXCEPT ![i] =
                IF r.err = "OK" THEN MkdirsDone(call)
                ELSE IF r.err = "ENOENT" THEN [call EXCEPT !.at = Dirname(call.at)]
                ELSE [call EXCEPT !.pc = "stat", !.code = r.err]]
    /\ UNCHANGED <<cwd, ret, lastWrite, archive, extraction, nlu>>

StatStep(i) ==
    /\ i \in DOMAIN calls
    /\ calls[i].pc = "stat"
    /\ LET call == calls[i] IN
       calls' = [calls EXCEPT ![i] =
          IF MkdirsAfterError(fs, call.at, call.code) = "OK" THEN MkdirsDone(call)
          ELSE [call EXCEPT !.pc = "failed"]]
    /\ UNCHANGED <<fs, cwd, ret, lastWrite, archive, extraction, nlu>>

WriteStep(i) ==
    /\ i \in DOMAIN calls
    /\ calls[i].pc = "write"
    /\ LET call == calls[i]
           at == resolvePath(call.path)
           w == SysWriteFile(fs, at, call.content)
       IN /\ fs' = w.fs
          /\ calls' = [calls EXCEPT ![i] =
                IF w.err = "OK" THEN [call EXCEPT !.pc = "done"]
                ELSE [call EXCEPT !.pc = "failed", !.code = w.err]]
          /\ lastWrite' = IF w.err = "OK" THEN FsPut(lastWrite, at, call.content)
                          ELSE lastWrite
    /\ UNCHANGED <<cwd, ret, archive, extraction, nlu>>

-----------------------------------------------------------------------------
(* One extractArchive call, step by step.  The call runs to its first await  *)
(* in one step: the destination is made, the archive is queued on the        *)
(* pass-through stream, the stream is piped into the unpack stream, which    *)
(* starts the flow on a later tick, and the listeners for the unpack         *)
(* stream's signals are attached.  The flow is the next step: the unpack     *)
(* stream is synchronous, so it unpacks all it is given and emits "end", or  *)
(* "error", before the step is over.  The listing is the last step.          *)

NoExtraction ==
    [pc |-> "idle", arch |-> NoArchive, destination |-> <<>>, listening |-> FALSE,
     before |-> <<>>, kind |-> "ok", code |-> "", value |-> {}]

\* What lies beneath the directory at: the paths relative to it, with their
\* kind or content
Subtree(f, at) ==
    [q \in {SubSeq(x, Len(at) + 1, Len(x)) : x \in {y \in DOMAIN f : IsUnder(y, at) /\ y # at}}
        |-> f[at \o q]]

\* lines 133-145, to the await: existsSync and mkdirSync throw into the
\* call's promise; otherwise the listeners are attached before the call
\* suspends
ExtractStart(arch, destination) ==
    /\ extraction.pc \in {"idle", "resolved", "rejected"}
    /\ LET dest == PathResolve(cwd, destination)
           made == IF Exists(fs, dest) THEN SysResult("OK", fs, "") ELSE SysMkdir(fs, dest)
           started == [NoExtraction EXCEPT !.arch = arch, !.destination = destination,
                                           !.before = Subtree(fs, dest)]
       IN /\ fs' = made.fs
          /\ extraction' =
                IF made.err # "OK"
                THEN [started EXCEPT !.pc = "rejected", !.kind = "Error", !.code = made.err]
                ELSE [started EXCEPT !.pc = "piped", !.listening = TRUE]
    /\ UNCHANGED <<cwd, ret, lastWrite, archive, calls, nlu>>

\* The tick after the pipe: the archive flows into the unpack stream.  A
\* signal settles the awaited promise if its listener is attached.
ExtractFlow ==
    /\ extraction.pc = "piped"
    /\ LET dest == PathResolve(cwd, extraction.destination)
           x == IF IsDirAt(fs, dest) THEN TarExtract(fs, dest, extraction.arch.entries)
                ELSE SysResult("ENOTDIR", fs, "")
       IN /\ fs' = x.fs
          /\ lastWrite' = Forget(lastWrite, dest)
          /\ extraction' =
                IF ~extraction.listening THEN [extraction EXCEPT !.pc = "flowed"]
                ELSE IF x.err = "OK" THEN [extraction EXCEPT !.pc = "ended"]
                ELSE [extraction EXCEPT !.pc = "rejected", !.kind = "Error", !.code = x.err]
    /\ UNCHANGED <<cwd, ret, archive, calls, nlu>>

\* lines 147-148, after the await: the listing of the destination
ExtractList ==
    /\ extraction.pc = "ended"
    /\ LET dest == PathResolve(cwd, extraction.destination) IN
       extraction' = [extraction EXCEPT !.pc = "resolved",
                                        !.value = Glob(fs, dest, FALSE, {})]
    /\ UNCHANGED <<fs, cwd, ret, lastWrite, archive, calls, nlu>>

\* No extractArchive call is suspended
ExtractionSettled == extraction.pc \in {"idle", "resolved", "rejected"}

-----------------------------------------------------------------------------
(* NLURouter (src/bp/nlu/application/api/router.ts): the handler of         *)
(* POST /entities/:id/delete.  An intent is a record of its name, its slots  *)
(* (a sequence of records of a name and a sequence of entity ids, no id      *)
(* twice) and its utterances by language; an utterance is a sequence of      *)
(* tokens, a token being a text, marked up "[text](slot)" when its slot is   *)
(* not "".  The repositories are the handler's collaborators: each of their  *)
(* calls resolves or rejects.                                                *)

Includes(seq, x) == \E k \in 1..Len(seq) : seq[k] = x

\* _.without(seq, x)
Without(seq, x) == SelectSeq(seq, LAMBDA e : e # x)

\* One utterance with the markup of the named slots replaced by its text; the
\* regular expression has the flags g and i
StripSlots(u, slotNames) ==
    [j \in DOMAIN u |->
        IF u[j].slot # "" /\ ToLowerCase(u[j].slot) \in {ToLowerCase(n) : n \in slotNames}
        THEN [text |-> u[j].text, slot |-> ""]
        ELSE u[j]]

removeSlotsFromUtterances(utterances, slotNames) ==
    [lang \in DOMAIN utterances |->
        [k \in DOMAIN utterances[lang] |-> StripSlots(utterances[lang][k], slotNames)]]

\* The filter of the intents read
IsAffected(intent, id) ==
    \E k \in 1..Len(intent.slots) : Includes(intent.slots[k].entities, id)

\* An update that drops every slot that references the entity
updatedIntentDropsAffected(intent, id) ==
    LET affectedSlots == SelectSeq(intent.slots, LAMBDA slot : Includes(slot.entities, id))
        unaffectedSlots == SelectSeq(intent.slots, LAMBDA slot : ~Includes(slot.entities, id))
    IN [intent EXCEPT
          !.slots = unaffectedSlots,
          !.utterances = removeSlotsFromUtterances(intent.utterances,
                            {affectedSlots[k].name : k \in DOMAIN affectedSlots})]

\* The mapper of Promise.map, up to its saveIntent call
updatedIntent(intent, id) ==
    LET affectedSlots == SelectSeq(intent.slots, LAMBDA slot : Includes(slot.entities, id))
        unaffectedSlots == SelectSeq(intent.slots, LAMBDA slot : ~Includes(slot.entities, id))
        slotsToDelete == SelectSeq(affectedSlots, LAMBDA slot : Len(slot.entities) = 1)
        slotsToKeep == SelectSeq(affectedSlots, LAMBDA slot : Len(slot.entities) # 1)
    IN [intent EXCEPT
          !.slots = unaffectedSlots \o
                    [k \in DOMAIN slotsToKeep |->
                        [name |-> slotsToKeep[k].name,
                         entities |-> Without(slotsToKeep[k].entities, id)]],
          !.utterances = removeSlotsFromUtterances(intent.utterances,
                            {slotsToDelete[k].name : k \in DOMAIN slotsToDelete})]

NoIntents == [n \in {} |-> <<>>]

\* No request made: entities are the entity ids in the entity repository,
\* intents the intents in the intent repository by name; of the request, id
\* is its entity id, deleted says that deleteEntity has resolved, read is the
\* result of getIntents, pending are the names of the intents whose
\* saveIntent is in progress, saved the intents whose saveIntent resolved, as
\* they were handed to it, status the status sent (0: none yet).
NoRequest ==
    [pc |-> "idle", entities |-> {}, intents |-> NoIntents, id |-> "",
     deleted |-> FALSE, wasRead |-> FALSE, read |-> NoIntents, pending |-> {},
     saved |-> NoIntents, status |-> 0]

\* The handler runs to its first await, and entityRepo.deleteEntity settles:
\* a rejection is caught and answered with 404
DeleteEntity(id, resolves) ==
    /\ nlu.pc \in {"idle", "sent"} /\ nlu.pending = {}
    /\ nlu' = IF resolves
              THEN [nlu EXCEPT !.pc = "deleted", !.id = id, !.deleted = TRUE,
                               !.entities = nlu.entities \ {id},
                               !.wasRead = FALSE, !.read = NoIntents,
                               !.saved = NoIntents, !.status = 0]
              ELSE [nlu EXCEPT !.pc = "sent", !.id = id, !.deleted = FALSE,
                               !.wasRead = FALSE, !.read = NoIntents,
                               !.saved = NoIntents, !.status = 404]
    /\ UNCHANGED <<fs, cwd, ret, lastWrite, archive, calls, extraction>>

\* intentRepo.getIntents settles; the affected intents are filtered and
\* Promise.map starts a saveIntent for each of them
GetIntents(resolves) ==
    /\ nlu.pc = "deleted"
    /\ nlu' = IF resolves
              THEN [nlu EXCEPT !.pc = "saving", !.wasRead = TRUE, !.read = nlu.intents,
                               !.pending = {n \in DOMAIN nlu.intents :
                                               IsAffected(nlu.intents[n], nlu.id)}]
              ELSE [nlu EXCEPT !.pc = "sent", !.status = 404]
    /\ UNCHANGED <<fs, cwd, ret, lastWrite, archive, calls, extraction>>

\* One saveIntent settles.  The first rejection rejects Promise.map, which is
\* caught and answered with 404; the saves still in progress go on.
SaveIntent(n, resolves) ==
    /\ n \in nlu.pending
    /\ LET updated == updatedIntent(nlu.read[n], nlu.id)
           left == [nlu EXCEPT !.pending = nlu.pending \ {n}]
       IN nlu' = IF resolves
                 THEN [left EXCEPT !.intents = FsPut(nlu.intents, n, updated),
                                   !.saved = FsPut(nlu.saved, n, updated)]
                 ELSE IF nlu.pc = "saving"
                 THEN [left EXCEPT !.pc = "sent", !.status = 404]
                 ELSE left
    /\ UNCHANGED <<fs, cwd, ret, lastWrite, archive, calls, extraction>>

\* Promise.map has resolved: res.sendStatus(204)
Respond ==
    /\ nlu.pc = "saving" /\ nlu.pending = {}
    /\ nlu' = [nlu EXCEPT !.pc = "sent", !.status = 204]
    /\ UNCHANGED <<fs, cwd, ret, lastWrite, archive, calls, extraction>>


-----------------------------------------------------------------------------
(* The store after construction: the project location exists and is empty. *)

EmptyStore == (<<>> :> Dir) @@ (PROJECT_LOCATION :> Dir)

\* The working directories a process may have been started in
WorkDirs == {PROJECT_LOCATION, <<>>}

\* The driver after construction, no call made
InitDriver ==
    /\ fs = EmptyStore
    /\ ret = NoCall
    /\ lastWrite = [q \in {} |-> ""]
    /\ archive = NoArchive
    /\ calls = <<>>
    /\ extraction = NoExtraction

\* The driver of a bot with no entities and no intents
InitStore ==
    /\ InitDriver
    /\ nlu = NoRequest

-----------------------------------------------------------------------------
(* Spec: one caller issuing file operations one after another *)

\* The paths written: two files of one folder (one is the folder's revision
\* ledger), one below a missing sub-folder, one that leaves the project
\* location through "..".
WritePaths ==
    { <<"a", "x.txt">>, <<"a", "revisions.json">>, <<"a", "sub", "x.txt">>,
      <<"..", "out.txt">> }

\* The paths read and deleted: those, a directory, and an absolute path
FilePaths == WritePaths \cup { <<"a">>, <<"/", "out.txt">> }

\* Folders: two that get created, one below a regular file, one never created
MadeDirs == { <<"a">>, <<"a", "sub">> }
DirPaths == MadeDirs \cup { <<"a", "x.txt", "sub">>, <<"nodir">> }

Init ==
    /\ InitStore
    /\ cwd = PROJECT_LOCATION

Next ==
    \/ \E p \in WritePaths, c \in Contents, rec \in BOOLEAN : UpsertFile(p, c, rec)
    \/ \E p \in FilePaths : ReadFile(p)
    \/ \E p \in FilePaths : DeleteFile(p)
    \/ \E d \in DirPaths : DeleteDir(d)
    \/ \E d \in MadeDirs : CreateDir(d)
    \/ \E d \in DirPaths, dot \in BOOLEAN : DirectoryListing(d, {}, dot)
    \/ \E d \in DirPaths : ListRevisions(d)
    \/ DeleteRevision(<<"a", "x.txt">>, "r1")

Spec == Init /\ [][Next]_vars

-----------------------------------------------------------------------------
(* Claims checked under Spec *)

\* The physical location a call's path argument names
Location(call) == resolvePath(call.path)

StrictlyInside(p, root) == IsUnder(p, root) /\ p # root

\* C1: a readFile of a path without ".." segments, at a location whose most
\* recent mutation (an upsertFile of it, a deleteFile of it, a deleteDir of it
\* or of a directory above it) was upsertFile with content c, succeeds and
\* returns exactly c; calls on other paths in between do not change that.
C1_ReadSeesLatestWrite ==
    (/\ ret.op = "readFile"
     /\ ~HasTraversal(ret.path)
     /\ Location(ret) \in DOMAIN lastWrite)
    => (ret.kind = "ok" /\ ret.value = lastWrite[Location(ret)])

\* C1's case: a read returns the second content written to a path while
\* another written file exists beside it.
C1_Witness ==
    /\ ret.op = "readFile"
    /\ ~HasTraversal(ret.path)
    /\ Location(ret) \in DOMAIN lastWrite
    /\ ret.kind = "ok" /\ ret.value = "c2"
    /\ \E q \in DOMAIN lastWrite : q # Location(ret) /\ lastWrite[q] = "c1"

\* C2: a readFile that fails fails with an error of the driver's own kinds:
\* not-found when the file is absent, the wrapping read error otherwise.
C2_ReadErrorKinds ==
    (ret.op = "readFile" /\ ret.kind # "ok")
    => /\ ret.kind \in {"NotFound", "VError"}
       /\ (~Exists(fs, Location(ret))) => ret.kind = "NotFound"

\* The folder whose ledger records a path's revisions
LedgerPrefix(filePath) == SubSeq(filePath, 1, Len(filePath) - 1)

\* C3: a successful upsertFile of a file other than the ledger itself makes
\* the ledger of its folder one entry longer when recordRevision is true, and
\* leaves its length when recordRevision is false.
C3_RecordedUpsertAppends ==
    [][(/\ ret'.op = "upsertFile"
        /\ ret'.kind = "ok"
        /\ Basename(ret'.path) # "revisions.json")
       => Len(listRevisions(fs', LedgerPrefix(ret'.path)).value)
            = Len(listRevisions(fs, LedgerPrefix(ret'.path)).value)
              + (IF ret'.args.recordRevision THEN 1 ELSE 0)]_vars

\* C7: directoryListing of a folder that does not exist succeeds with the
\* empty listing.
C7_ListingOfMissingFolder ==
    (ret.op = "directoryListing" /\ ~Exists(fs, Location(ret)))
    => (ret.kind = "ok" /\ ret.value = {})

\* C10: every call that took a path either was rejected or named a location
\* strictly inside the project location.
C10_PathContainment ==
    (ret.op \in {"upsertFile", "readFile", "deleteFile", "deleteDir", "directoryListing"})
    => (ret.kind # "ok" \/ StrictlyInside(Location(ret), PROJECT_LOCATION))

\* The error of a capability that is not implemented, as a caller can tell
\* it: a plain Error, not a wrapping one, with no I/O code
NotImplementedKind(r) ==
    r.kind = "Error" /\ r.code = "" /\ r.value = "Method not implemented."

\* C11: every deleteRevision fails with the not-implemented error, which no
\* other call fails with, and leaves the filesystem, and so the files and the
\* ledgers in it, as it was.
C11_DeleteRevisionNotImplemented ==
    [][/\ (ret'.op = "deleteRevision")
            => (NotImplementedKind(ret') /\ fs' = fs)
       /\ (ret'.op # "deleteRevision")
            => ~(ret'.kind = "Error" /\ ret'.code = "")]_vars

\* C11's case: deleteRevision of a file that exists and whose folder has a
\* ledger with an entry has failed, file and ledger still there.
C11_Witness ==
    /\ ret.op = "deleteRevision" /\ NotImplementedKind(ret)
    /\ IsFileAt(fs, Location(ret))
    /\ listRevisions(fs, LedgerPrefix(ret.path)).value = <<"r1">>

\* C13: a deleteFile that fails fails with the wrapping error, which carries
\* the code of its cause, and changes no file.
C13_DeleteFailureIsWrapped ==
    [][(ret'.op = "deleteFile" /\ ret'.kind # "ok")
       => (ret'.kind = "VError" /\ ret'.code # "" /\ fs' = fs)]_vars

\* C14: every listRevisions succeeds and leaves the filesystem as it was; it
\* returns the empty sequence when the ledger file cannot be read or its text
\* is not JSON.
C14_ListRevisionsNeverFails ==
    [][(ret'.op = "listRevisions")
       => /\ ret'.kind = "ok"
          /\ fs' = fs
          /\ LET led == SysReadFile(fs, resolvePath(PathJoin(ret'.path, <<"revisions.json">>)))
             IN (led.err # "OK" \/ ~JSONParses(led.data)) => ret'.value = <<>>]_vars

\* C14's case: the ledger file exists, its text is not JSON, and listRevisions
\* returned the empty sequence.
C14_Witness ==
    /\ ret.op = "listRevisions" /\ ret.kind = "ok" /\ ret.value = <<>>
    /\ IsFileAt(fs, resolvePath(PathJoin(ret.path, <<"revisions.json">>)))
    /\ fs[resolvePath(PathJoin(ret.path, <<"revisions.json">>))] = "c1"

\* C15: every path that exists has all of its ancestors existing as
\* directories.
C15_AncestorsExist ==
    \A q \in DOMAIN fs : \A k \in 0..(Len(q) - 1) : IsDirAt(fs, Prefix(q, k))

\* C15's case: upsertFile has written a file whose folder did not exist, and
\* the folder and the file are there.
C15_Witness ==
    /\ ret.op = "upsertFile" /\ ret.kind = "ok"
    /\ ret.args.folderMissing
    /\ Len(ret.path) = 3
    /\ IsFileAt(fs, Location(ret)) /\ IsDirAt(fs, Dirname(Location(ret)))

\* C17: after a successful deleteDir(d) nothing exists at d or beneath it, no
\* file beneath d can be read, the listing of d is empty, and every path that
\* is not beneath d exists as before, with its content.
C17_DeleteDirFrame ==
    [][(ret'.op = "deleteDir" /\ ret'.kind = "ok")
       => LET at == resolvePath(ret'.path) IN
          /\ \A q \in DOMAIN fs' : ~IsUnder(q, at)
          /\ \A p \in FilePaths :
                IsUnder(resolvePath(p), at) => readFile(fs', p).kind # "ok"
          /\ directoryListing(fs', ret'.path, {}, TRUE).value = {}
          /\ \A q \in DOMAIN fs :
                ~IsUnder(q, at) => (q \in DOMAIN fs' /\ fs'[q] = fs[q])]_vars

\* C17's case: deleteDir has removed a folder that held a file, and a file
\* beside the folder is there with the content last written to it.
C17_Witness ==
    /\ ret.op = "deleteDir" /\ ret.kind = "ok"
    /\ ret.args.held # {}
    /\ ret.path = <<"a", "sub">>
    /\ IsFileAt(fs, resolvePath(<<"a", "x.txt">>))
    /\ fs[resolvePath(<<"a", "x.txt">>)] = "c2"

-----------------------------------------------------------------------------
(* SpecList: listings and folder discovery over the trees a caller builds  *)

\* A folder with a file with and one without an extension; a folder with an
\* opt-out marker directly in it and one deeper, in another letter case; a
\* folder whose own name has a dot; a file directly in the project location.
ListFiles ==
    { <<"a", "x.txt">>, <<"a", "readme">>,
      <<"b", "x.txt">>, <<"b", ".noghost">>, <<"b", "sub", ".NoGhost">>,
      <<"v1.2", "readme">>, <<"x.txt">> }

ListFolders == { <<>>, <<"b">> }

\* '**/*.txt', 'b/**', and 'v1.2/**' with 'a/x.txt'
ExcludeChoices ==
    { {},
      { <<GLOBSTAR, <<"*", ".", "txt">>>> },
      { << <<"b">>, GLOBSTAR >> },
      { << <<"v1", ".", "2">>, GLOBSTAR >>, << <<"a">>, <<"x", ".", "txt">> >> } }

InitList ==
    /\ InitStore
    /\ cwd \in WorkDirs

NextList ==
    \/ \E p \in ListFiles : UpsertFile(p, "c1", FALSE)
    \/ \E p \in ListFiles : DeleteFile(p)
    \/ DeleteDir(<<"b">>)
    \/ \E d \in ListFolders, ex \in ExcludeChoices, dot \in BOOLEAN :
          DirectoryListing(d, ex, dot)
    \/ DiscoverTrackableFolders(<<>>)

SpecList == InitList /\ [][NextList]_vars

HasDotSegment(rel) == \E i \in 1..Len(rel) : StartsWithDot(rel[i])

\* C5: a listing with no exclude is the set of the regular files at any depth
\* below the folder (without the dot-prefixed ones when includeDotFiles is
\* false), and holds no directory.
C5_ListingIsTheFiles ==
    (/\ ret.op = "directoryListing"
     /\ ret.kind = "ok"
     /\ ret.args.exclude = {})
    => ret.value = {q \in FilesBelow(fs, Location(ret)) :
                       ret.args.includeDotFiles \/ ~HasDotSegment(q)}

\* C6: a listing with exclude patterns is the listing without them, minus
\* exactly the paths an exclude pattern matches (as the ignore option of glob
\* matches: in dot mode, a pattern ending in /** also matching the directory
\* it names).
C6_ExcludeRemovesTheMatches ==
    (ret.op = "directoryListing" /\ ret.kind = "ok")
    => ret.value =
         {q \in directoryListing(fs, ret.path, {}, ret.args.includeDotFiles).value :
             ~IsIgnored(q, ret.args.exclude)}

\* C6's case: a listing with an exclude pattern that dropped one path and
\* kept another.
C6_Witness ==
    /\ ret.op = "directoryListing" /\ ret.kind = "ok"
    /\ ret.args.exclude # {}
    /\ ret.value # {}
    /\ \E q \in directoryListing(fs, ret.path, {}, ret.args.includeDotFiles).value :
          q \notin ret.value

\* The names of the directories directly in the directory at
DirsIn(f, at) == {n \in Readdir(f, at) : IsDirAt(f, Append(at, n))}

\* C4: the folders discovered are the directories directly in baseDir that
\* hold a file at some depth, without those that hold a file named .noghost
\* (in any letter case) at some depth.
C4_DiscoveredFolders ==
    (ret.op = "discoverTrackableFolders")
    => ret.value =
         {n \in DirsIn(fs, Location(ret)) :
            /\ FilesBelow(fs, Append(Location(ret), n)) # {}
            /\ \A q \in FilesBelow(fs, Append(Location(ret), n)) :
                  ToLowerCase(Basename(q)) # ".noghost"}

\* C18: every folder discovered is the name of a directory directly in
\* baseDir, and the working directory of the process does not change the
\* result.
C18_DiscoveredAreDirectories ==
    (ret.op = "discoverTrackableFolders")
    => /\ ret.value \subseteq DirsIn(fs, Location(ret))
       /\ \A w \in WorkDirs :
             discoverTrackableFolders(fs, ret.path, w).value = ret.value

-----------------------------------------------------------------------------
(* SpecArchive: a folder is archived and the archive extracted elsewhere   *)

ArchiveFolder == <<"a">>
ArchiveDest == <<"dest">>

\* A file with an extension, one without, and a dot-file
ArchiveWrites ==
    { <<"x.txt", "c1">>, <<"x.txt", "c2">>, <<"readme", "c1">>, <<".noghost", "c1">> }

ArchiveFileLists ==
    { << <<"x.txt">>, <<"readme">> >>, << <<"x.txt">>, <<".noghost">> >>,
      << <<"readme">>, <<".noghost">> >>, << <<"x.txt">> >> }

InitArchive ==
    /\ InitStore
    /\ cwd = PROJECT_LOCATION

NextArchive ==
    \/ \E w \in ArchiveWrites : UpsertFile(Append(ArchiveFolder, w[1]), w[2], FALSE)
    \/ \E files \in ArchiveFileLists : CreateArchive(<<"a.tgz">>, ArchiveFolder, files)
    \/ ExtractArchive(ArchiveDest)
    \/ DeleteDir(ArchiveDest)

SpecArchive == InitArchive /\ [][NextArchive]_vars

\* C8: extracting a completely written archive into an empty destination
\* succeeds, returns exactly the paths archived, and leaves each of them in the
\* destination with the content it had when archived.
C8_ArchiveRoundTrip ==
    (ret.op = "extractArchive" /\ ret.args.intoEmpty)
    => /\ ret.kind = "ok"
       /\ ret.value = {archive.entries[i].path : i \in 1..Len(archive.entries)}
       /\ \A i \in 1..Len(archive.entries) :
             readFile(fs, ret.path \o archive.entries[i].path).value
                = archive.entries[i].data
-----------------------------------------------------------------------------
(* SpecConc: one caller prepares the store, then two upsertFile calls run  *)
(* interleaved                                                             *)

\* A path that is a prefix of two others; two paths that share the missing
\* folder a; a path in another folder
ConcPaths ==
    { <<"a">>, <<"a", "x.txt">>, <<"a", "sub", "x.txt">>, <<"b", "x.txt">> }

InitConc ==
    /\ InitStore
    /\ cwd = PROJECT_LOCATION

NextConc ==
    \/ calls = <<>> /\ \E p \in {<<"a">>, <<"a", "x.txt">>} : UpsertFile(p, "[r1]", FALSE)
    \/ calls = <<>> /\ DeleteDir(<<"a">>)
    \/ \E p1 \in ConcPaths : \E p2 \in ConcPaths \ {p1} :
          StartUpserts(p1, "c1", p2, "c2")
    \/ \E i \in 1..2 : MkdirStep(i)
    \/ \E i \in 1..2 : StatStep(i)
    \/ \E i \in 1..2 : WriteStep(i)

SpecConc == InitConc /\ [][NextConc]_vars

BothSettled == calls # <<>> /\ \A i \in 1..2 : calls[i].pc \in {"done", "failed"}

BothSucceeded ==
    \A i \in 1..2 :
        /\ calls[i].pc = "done"
        /\ readFile(fs, calls[i].path).kind = "ok"
        /\ readFile(fs, calls[i].path).value = calls[i].content

\* Neither location is the other or lies beneath it
Independent(p, q) ==
    ~IsUnder(resolvePath(p), resolvePath(q)) /\ ~IsUnder(resolvePath(q), resolvePath(p))

\* C9 as stated, for calls that each would have succeeded had it run alone:
\* two interleaved upsertFile calls on two different paths both succeed, and
\* each path then reads back the content written to it.
C9_AnyTwoPaths ==
    (/\ BothSettled
     /\ calls[1].path # calls[2].path
     /\ calls[1].alone /\ calls[2].alone)
    => BothSucceeded

\* C9, amended: so it is when neither path is an ancestor of the other and
\* each call would have succeeded had it run alone.
C9_IndependentPaths ==
    (/\ BothSettled
     /\ Independent(calls[1].path, calls[2].path)
     /\ calls[1].alone /\ calls[2].alone)
    => BothSucceeded

\* C9's case: both calls had the folder a to make, one of them found it made
\* by the other in between (EEXIST), and both succeeded.
C9_Witness ==
    /\ BothSettled /\ BothSucceeded
    /\ Independent(calls[1].path, calls[2].path)
    /\ {calls[1].path, calls[2].path} = {<<"a", "x.txt">>, <<"a", "sub", "x.txt">>}
    /\ \E i \in 1..2 : calls[i].code = "EEXIST"

-----------------------------------------------------------------------------
(* SpecExtract: archives a caller hands to extractArchive, well-formed and   *)
(* crafted, unpacked into a destination that may hold files already.  The    *)
(* event loop runs every callback that is due, hence the fairness.           *)

\* Entries: two well-formed ones, one of them a name without an extension in a
\* sub-folder; one whose path leaves the destination; one with a header that
\* does not parse; one with an absolute path
GoodEntry == [header |-> "ok", path |-> <<"x.txt">>, data |-> "c1"]
DeepEntry == [header |-> "ok", path |-> <<"sub", "readme">>, data |-> "c2"]
EscapingEntry == [header |-> "ok", path |-> <<"..", "out.txt">>, data |-> "c1"]
MalformedEntry == [header |-> "bad", path |-> <<>>, data |-> ""]
AbsoluteEntry == [header |-> "ok", path |-> <<"/", "out.txt">>, data |-> "c1"]

\* Archives of well-formed entries, and archives where well-formed entries
\* come before a bad one
ExtractArchives ==
    {[complete |-> TRUE, entries |-> e] :
        e \in { <<GoodEntry>>, <<GoodEntry, DeepEntry>>,
                <<GoodEntry, EscapingEntry>>, <<DeepEntry, MalformedEntry, GoodEntry>>,
                <<GoodEntry, AbsoluteEntry>> }}

ExtractDest == <<"dest">>

ExtractWrites == { <<"dest", "x.txt">>, <<"dest", "out.txt">> }

InitExtract ==
    /\ InitStore
    /\ cwd = PROJECT_LOCATION

NextExtract ==
    \/ ExtractionSettled /\ \E p \in ExtractWrites : UpsertFile(p, "c2", FALSE)
    \/ ExtractionSettled /\ DeleteDir(ExtractDest)
    \/ \E arch \in ExtractArchives : ExtractStart(arch, ExtractDest)
    \/ ExtractFlow
    \/ ExtractList

SpecExtract ==
    InitExtract /\ [][NextExtract]_vars /\ WF_vars(ExtractFlow) /\ WF_vars(ExtractList)

HasBadEntry(arch) == \E i \in 1..Len(arch.entries) : BadEntry(arch.entries[i])

\* C12: an extractArchive of an archive with a bad entry settles by failing
\* with the wrapping archive error, and the destination then holds what it
\* held before the call.
C12_ExtractAllOrNothing ==
    [][(~ExtractionSettled /\ ExtractionSettled' /\ HasBadEntry(extraction'.arch))
       => /\ extraction'.pc = "rejected"
          /\ extraction'.kind = "VError"
          /\ Subtree(fs', PathResolve(cwd, extraction'.destination))
                = extraction'.before]_vars

\* C16: the listing an extractArchive call resolves with holds the path of
\* every entry of the archive, all of them unpacked by then.
C16_ListingHoldsEveryEntry ==
    (extraction.pc = "resolved")
    => \A i \in 1..Len(extraction.arch.entries) :
          extraction.arch.entries[i].path \in extraction.value

\* The listing is made after the end signal only, and by then every entry is
\* in the destination
ListingFollowsEnd ==
    [][(extraction'.pc = "resolved" /\ extraction.pc # "resolved")
       => /\ extraction.pc = "ended"
          /\ \A i \in 1..Len(extraction.arch.entries) :
                IsFileAt(fs, PathResolve(cwd, extraction.destination)
                                \o extraction.arch.entries[i].path)]_vars

\* Every extractArchive call that suspended settles
EveryExtractionSettles == (extraction.pc = "piped") ~> ExtractionSettled

-----------------------------------------------------------------------------
(* SpecRouter: entity-delete requests on a bot's intents, one after another *)

EntityIds == {"e1", "e2"}

\* Slots: one whose only entity is e1, one with e1 and e2, one with e2 alone
SlotCity == [name |-> "city", entities |-> <<"e1">>]
SlotPlace == [name |-> "place", entities |-> <<"e1", "e2">>]
SlotWhen == [name |-> "when", entities |-> <<"e2">>]

Marked(text, slot) == [text |-> text, slot |-> slot]

\* Intents: one with a slot of each kind and marked-up utterances, one with
\* the two-entity slot alone, one that references e2 only, one with no slot
BotIntents ==
    [i1 |-> [name |-> "i1", slots |-> <<SlotCity, SlotWhen, SlotPlace>>,
             utterances |-> [en |-> << <<Marked("go to", ""), Marked("paris", "City"),
                                        Marked("today", "when")>> >>]],
     i2 |-> [name |-> "i2", slots |-> <<SlotPlace>>,
             utterances |-> [en |-> << <<Marked("home", "place")>> >>]],
     i3 |-> [name |-> "i3", slots |-> <<SlotWhen>>,
             utterances |-> [en |-> << <<Marked("now", "when")>> >>]],
     i4 |-> [name |-> "i4", slots |-> <<>>,
             utterances |-> [en |-> << <<Marked("hello", "")>> >>]]]

InitRouter ==
    /\ InitDriver
    /\ cwd = PROJECT_LOCATION
    /\ \E names \in SUBSET DOMAIN BotIntents :
          nlu = [NoRequest EXCEPT !.entities = EntityIds,
                                  !.intents = [n \in names |-> BotIntents[n]]]

NextRouter ==
    \/ \E id \in EntityIds, resolves \in BOOLEAN : DeleteEntity(id, resolves)
    \/ \E resolves \in BOOLEAN : GetIntents(resolves)
    \/ \E n \in DOMAIN BotIntents, resolves \in BOOLEAN : SaveIntent(n, resolves)
    \/ Respond

SpecRouter == InitRouter /\ [][NextRouter]_vars

Range(seq) == {seq[k] : k \in DOMAIN seq}

References(slot, id) == id \in Range(slot.entities)

\* C19: the entity is deleted before any intent is read or saved; and once
\* the handler has answered 204, every intent read that had a slot referencing
\* the entity has been saved with no slot referencing it: its slots that did
\* not reference the entity as they were, its slots with other entities too
\* with those other entities, its slots with that entity alone gone, and no
\* other slot; and no intent without such a slot has been saved.
C19_DeleteEntityUpdatesIntents ==
    /\ (nlu.wasRead \/ DOMAIN nlu.saved # {}) => nlu.deleted
    /\ (nlu.status = 204)
       => \A n \in DOMAIN nlu.read :
            LET was == Range(nlu.read[n].slots) IN
            IF \E s \in was : References(s, nlu.id)
            THEN /\ n \in DOMAIN nlu.saved
                 /\ LET now == Range(nlu.saved[n].slots) IN
                    /\ \A t \in now : ~References(t, nlu.id)
                    /\ \A s \in was :
                          IF ~References(s, nlu.id) THEN s \in now
                          ELSE IF Range(s.entities) = {nlu.id}
                          THEN \A t \in now : t.name # s.name
                          ELSE \E t \in now :
                                  /\ t.name = s.name
                                  /\ Range(t.entities) = Range(s.entities) \ {nlu.id}
                    /\ Len(nlu.saved[n].slots)
                          = Cardinality({s \in was : Range(s.entities) # {nlu.id}})
            ELSE n \notin DOMAIN nlu.saved

\* C19's case: the request for e1 was answered 204 on a bot with two intents
\* that referenced e1 and one that did not; the two were saved, the one with
\* a slot of each kind keeping two slots.
C19_Witness ==
    /\ nlu.status = 204 /\ nlu.id = "e1"
    /\ {"i1", "i2", "i3"} \subseteq DOMAIN nlu.read
    /\ DOMAIN nlu.saved = {"i1", "i2"}
    /\ Len(nlu.saved["i1"].slots) = 2
    /\ Len(nlu.read["i1"].slots) = 3

====
